---------------------------- MODULE Spec2Model ----------------------------
(***************************************************************************)
(* Model of app.py: the spreadsheet pipeline of the delivery-distance      *)
(* checker.  One run of main() is a sequence of steps over the uploaded    *)
(* file: read, preview, normalize_columns, compute_distances, threshold    *)
(* filter + sort, render/export.                                           *)
(*                                                                         *)
(* Strings that the code inspects character by character (column headers,  *)
(* cell text handed to pd.to_numeric) are sequences of one-character       *)
(* strings.  Floats are fixed-point integers: a value n stands for         *)
(* n / FloatScale; angles inside the haversine formula use TrigScale.      *)
(***************************************************************************)
EXTENDS Integers, Sequences, FiniteSets

-----------------------------------------------------------------------------
(* Generic sequence helpers *)

Range(s) == {s[i] : i \in 1..Len(s)}

RECURSIVE Concat(_)
Concat(ss) == IF ss = <<>> THEN <<>> ELSE Head(ss) \o Concat(Tail(ss))

RECURSIVE Join(_, _)
Join(ss, sep) ==
    IF ss = <<>> THEN <<>>
    ELSE IF Len(ss) = 1 THEN ss[1]
    ELSE ss[1] \o sep \o Join(Tail(ss), sep)

-----------------------------------------------------------------------------
(* str.strip() and str.lower() *)

Upper == <<"A","B","C","D","E","F","G","H","I","J","K","L","M",
           "N","O","P","Q","R","S","T","U","V","W","X","Y","Z">>
LowerAlpha == <<"a","b","c","d","e","f","g","h","i","j","k","l","m",
                "n","o","p","q","r","s","t","u","v","w","x","y","z">>
Whitespace == {" ", "\t", "\n"}

LowerChar(c) ==
    IF \E i \in 1..Len(Upper) : Upper[i] = c
    THEN LowerAlpha[CHOOSE i \in 1..Len(Upper) : Upper[i] = c]
    ELSE c

lower(s) == [i \in 1..Len(s) |-> LowerChar(s[i])]

RECURSIVE lstrip(_)
lstrip(s) == IF s # <<>> /\ Head(s) \in Whitespace THEN lstrip(Tail(s)) ELSE s

RECURSIVE rstrip(_)
rstrip(s) ==
    IF s # <<>> /\ s[Len(s)] \in Whitespace
    THEN rstrip(SubSeq(s, 1, Len(s) - 1))
    ELSE s

strip(s) == rstrip(lstrip(s))

-----------------------------------------------------------------------------
(* Column names, spelled out *)

us == <<"_">>
w_shipment == <<"s","h","i","p","m","e","n","t">>
w_code == <<"c","o","d","e">>
w_delivery == <<"d","e","l","i","v","e","r","y">>
w_actual == <<"a","c","t","u","a","l">>
w_dropoff == <<"d","r","o","p","o","f","f">>
w_lat == <<"l","a","t">>
w_latitude == <<"l","a","t","i","t","u","d","e">>
w_lng == <<"l","n","g">>
w_long == <<"l","o","n","g">>
w_longitude == <<"l","o","n","g","i","t","u","d","e">>
w_deg == <<"d","e","g">>
w_distance == <<"d","i","s","t","a","n","c","e">>
w_km == <<"k","m">>
w_meters == <<"m","e","t","e","r","s">>

shipment_code == w_shipment \o us \o w_code
delivery_latitude == w_delivery \o us \o w_latitude
delivery_longitude == w_delivery \o us \o w_longitude
dropoff_latitude == w_dropoff \o us \o w_latitude
dropoff_longitude == w_dropoff \o us \o w_longitude
distance_km == w_distance \o us \o w_km
distance_meters == w_distance \o us \o w_meters

(* The alias table, in source order, as <<alias, canonical>> pairs *)
col_map ==
    << <<shipment_code, shipment_code>>,
       <<w_shipment, shipment_code>>,
       <<w_delivery \o us \o w_lat, delivery_latitude>>,
       <<delivery_latitude, delivery_latitude>>,
       <<delivery_latitude \o us \o w_deg, delivery_latitude>>,
       <<w_delivery \o us \o w_lng, delivery_longitude>>,
       <<w_delivery \o us \o w_long, delivery_longitude>>,
       <<delivery_longitude, delivery_longitude>>,
       <<w_actual \o us \o w_lat, dropoff_latitude>>,
       <<w_actual \o us \o w_latitude, dropoff_latitude>>,
       <<w_actual \o us \o w_dropoff \o us \o w_lat, dropoff_latitude>>,
       <<w_dropoff \o us \o w_lat, dropoff_latitude>>,
       <<w_actual \o us \o w_lng, dropoff_longitude>>,
       <<w_actual \o us \o w_longitude, dropoff_longitude>>,
       <<w_actual \o us \o w_dropoff \o us \o w_long, dropoff_longitude>>,
       <<w_dropoff \o us \o w_lng, dropoff_longitude>>,
       <<w_dropoff \o us \o w_long, dropoff_longitude>> >>

InColMap(col) == \E i \in 1..Len(col_map) : col_map[i][1] = col
ColMapGet(col) == col_map[CHOOSE i \in 1..Len(col_map) : col_map[i][1] = col][2]

required_cols ==
    <<shipment_code, delivery_latitude, delivery_longitude,
      dropoff_latitude, dropoff_longitude>>

numeric_cols ==
    <<delivery_latitude, delivery_longitude, dropoff_latitude, dropoff_longitude>>

-----------------------------------------------------------------------------
(* Cells and tables *)

FloatScale == 1000

Num(n) == [k |-> "num", n |-> n, s |-> <<>>]
Str(s) == [k |-> "str", n |-> 0, s |-> s]
NaN == [k |-> "nan", n |-> 0, s |-> <<>>]

isna(cell) == cell.k = "nan"

(* A DataFrame: column labels (duplicates allowed) and rows aligned to them *)
DataFrame(columns, rows) == [columns |-> columns, rows |-> rows]
NoFrame == DataFrame(<<>>, <<>>)

(* positions of a label among the columns, ascending *)
RECURSIVE PositionsFrom(_, _, _)
PositionsFrom(columns, label, j) ==
    IF j > Len(columns) THEN <<>>
    ELSE (IF columns[j] = label THEN <<j>> ELSE <<>>)
         \o PositionsFrom(columns, label, j + 1)

Positions(columns, label) == PositionsFrom(columns, label, 1)

(* df[labels]: every column carrying one of the labels, label by label *)
Take(df, labels) ==
    LET idx == Concat([i \in 1..Len(labels) |-> Positions(df.columns, labels[i])])
    IN DataFrame([j \in 1..Len(idx) |-> df.columns[idx[j]]],
                 [r \in 1..Len(df.rows) |->
                     [j \in 1..Len(idx) |-> df.rows[r][idx[j]]]])

(* row[label] for a label that occurs once *)
At(df, row, label) == row[Positions(df.columns, label)[1]]

-----------------------------------------------------------------------------
(* pd.to_numeric(..., errors="coerce") on one cell *)

Digits == <<"0","1","2","3","4","5","6","7","8","9">>
IsDigit(c) == \E i \in 1..10 : Digits[i] = c
DigitVal(c) == (CHOOSE i \in 1..10 : Digits[i] = c) - 1

RECURSIVE IntVal(_)
IntVal(ds) ==
    IF ds = <<>> THEN 0
    ELSE IntVal(SubSeq(ds, 1, Len(ds) - 1)) * 10 + DigitVal(ds[Len(ds)])

(* the fraction digits as thousandths, digits past the third dropped *)
FracVal(ds) ==
    LET d(i) == IF i <= Len(ds) THEN DigitVal(ds[i]) ELSE 0
    IN d(1) * 100 + d(2) * 10 + d(3)

ParseFloat(s) ==
    LET neg == s # <<>> /\ Head(s) = "-"
        body == IF neg THEN Tail(s) ELSE s
        dots == Positions(body, ".")
        ip == IF dots = <<>> THEN body ELSE SubSeq(body, 1, dots[1] - 1)
        fp == IF dots = <<>> THEN <<>> ELSE SubSeq(body, dots[1] + 1, Len(body))
        ok == /\ Len(dots) <= 1
              /\ Len(ip) + Len(fp) >= 1
              /\ \A i \in 1..Len(ip) : IsDigit(ip[i])
              /\ \A i \in 1..Len(fp) : IsDigit(fp[i])
        mag == IntVal(ip) * FloatScale + FracVal(fp)
    IN IF ok THEN Num(IF neg THEN -mag ELSE mag) ELSE NaN

to_numeric(cell) ==
    IF cell.k = "str" THEN ParseFloat(cell.s) ELSE cell

-----------------------------------------------------------------------------
(* normalize_columns *)

Normalized(columns) == [j \in 1..Len(columns) |-> lower(strip(columns[j]))]

Renamed(columns) ==
    [j \in 1..Len(columns) |->
        IF InColMap(columns[j]) THEN ColMapGet(columns[j]) ELSE columns[j]]

Missing(columns) == SelectSeq(required_cols, LAMBDA c : c \notin Range(columns))

(* the coercion applied to every column, shipment_code included *)
CoerceAll(df) ==
    DataFrame(df.columns,
              [r \in 1..Len(df.rows) |->
                  [j \in 1..Len(df.columns) |-> to_numeric(df.rows[r][j])]])

Coerce(df) ==
    DataFrame(df.columns,
              [r \in 1..Len(df.rows) |->
                  [j \in 1..Len(df.columns) |->
                      IF df.columns[j] \in Range(numeric_cols)
                      THEN to_numeric(df.rows[r][j])
                      ELSE df.rows[r][j]]])

Outcome(status, df, required, missing) ==
    [status |-> status, df |-> df, required |-> required, missing |-> missing]

normalize_columns(df) ==
    LET columns == Renamed(Normalized(df.columns))
        missing == Missing(columns)
        taken == Take(DataFrame(columns, df.rows), required_cols)
    IN IF missing # <<>>
       THEN Outcome("ValueError", NoFrame, required_cols, missing)
       ELSE IF \E i \in 1..Len(numeric_cols) :
                   Len(Positions(taken.columns, numeric_cols[i])) > 1
       THEN Outcome("TypeError", NoFrame, <<>>, <<>>)
       ELSE Outcome("ok", Coerce(taken), <<>>, <<>>)

-----------------------------------------------------------------------------
(* haversine_distance_km, in fixed point.  Degrees and kilometres carry    *)
(* FloatScale; radians, sines and cosines carry TrigScale; `a` carries     *)
(* TrigScale squared.                                                      *)

TrigScale == 20000
PiT == 62832         \* pi at TrigScale
HalfPiT == 31416     \* pi / 2 at TrigScale

R == 6371

(* math.radians: degrees at FloatScale to radians at TrigScale *)
radians(deg) ==
    LET q == deg \div FloatScale
        r == deg % FloatScale
    IN (q * PiT) \div 180 + (r * PiT) \div (180 * FloatScale)

(* sine on [0, pi/2] by its Taylor polynomial up to x^7 *)
SinPoly(x) ==
    LET x2 == (x * x) \div TrigScale
        t3 == TrigScale - x2 \div 42
        t2 == TrigScale - ((x2 * t3) \div TrigScale) \div 20
        t1 == TrigScale - ((x2 * t2) \div TrigScale) \div 6
    IN (x * t1) \div TrigScale

(* cosine on [0, pi/2] by its Taylor polynomial up to x^8 *)
CosPoly(x) ==
    LET x2 == (x * x) \div TrigScale
        t4 == TrigScale - x2 \div 56
        t3 == TrigScale - ((x2 * t4) \div TrigScale) \div 30
        t2 == TrigScale - ((x2 * t3) \div TrigScale) \div 12
    IN TrigScale - ((x2 * t2) \div TrigScale) \div 2

Abs(x) == IF x < 0 THEN -x ELSE x

(* math.sin for |x| <= pi *)
sin(x) ==
    LET ax == Abs(x)
        v == IF ax > HalfPiT THEN SinPoly(PiT - ax) ELSE SinPoly(ax)
    IN IF x < 0 THEN -v ELSE v

(* math.cos for |x| <= pi *)
cos(x) ==
    LET ax == Abs(x)
    IN IF ax > HalfPiT THEN -CosPoly(PiT - ax) ELSE CosPoly(ax)

(* math.sqrt of a value at TrigScale squared, result at TrigScale *)
RECURSIVE SqrtBetween(_, _, _)
SqrtBetween(a, lo, hi) ==
    IF lo >= hi THEN lo
    ELSE LET mid == (lo + hi + 1) \div 2
         IN IF mid * mid <= a THEN SqrtBetween(a, mid, hi)
            ELSE SqrtBetween(a, lo, mid - 1)

sqrt(a) == SqrtBetween(a, 0, 2 * TrigScale)

(* math.asin on [0, 1]: the largest angle in [0, pi/2] whose sine is <= y *)
RECURSIVE AsinBetween(_, _, _)
AsinBetween(y, lo, hi) ==
    IF lo >= hi THEN lo
    ELSE LET mid == (lo + hi + 1) \div 2
         IN IF SinPoly(mid) <= y THEN AsinBetween(y, mid, hi)
            ELSE AsinBetween(y, lo, mid - 1)

asin(y) == AsinBetween(y, 0, HalfPiT)

(* the quantity `a` of the formula, at TrigScale squared *)
HaversineA(lat1, lon1, lat2, lon2) ==
    LET lat1_rad == radians(lat1)
        lon1_rad == radians(lon1)
        lat2_rad == radians(lat2)
        lon2_rad == radians(lon2)
        dlat == lat2_rad - lat1_rad
        dlon == lon2_rad - lon1_rad
        sdlat == sin(dlat \div 2)
        sdlon == sin(dlon \div 2)
        cc == (cos(lat1_rad) * cos(lat2_rad)) \div TrigScale
    IN sdlat * sdlat + ((cc * sdlon) \div TrigScale) * sdlon

(* math.asin raises ValueError outside [-1, 1] *)
DomainError(lat1, lon1, lat2, lon2) ==
    sqrt(HaversineA(lat1, lon1, lat2, lon2)) > TrigScale

(* kilometres at FloatScale *)
haversine_distance_km(lat1, lon1, lat2, lon2) ==
    LET a == HaversineA(lat1, lon1, lat2, lon2)
        c == 2 * asin(sqrt(a))
    IN (R * c) \div (TrigScale \div FloatScale)

-----------------------------------------------------------------------------
(* compute_distances *)

CoordinateSubset == numeric_cols

(* dropna without its subset: a row goes when any cell is missing *)
dropna_any(df, subset) ==
    DataFrame(df.columns,
              SelectSeq(df.rows,
                        LAMBDA row : \A j \in 1..Len(row) : ~isna(row[j])))

(* df.dropna(subset=...) *)
dropna(df, subset) ==
    DataFrame(df.columns,
              SelectSeq(df.rows,
                        LAMBDA row : \A i \in 1..Len(subset) :
                                        ~isna(At(df, row, subset[i]))))

_calc_row(df, row) ==
    haversine_distance_km(At(df, row, delivery_latitude).n,
                          At(df, row, delivery_longitude).n,
                          At(df, row, dropoff_latitude).n,
                          At(df, row, dropoff_longitude).n)

RowDomainError(df, row) ==
    DomainError(At(df, row, delivery_latitude).n,
                At(df, row, delivery_longitude).n,
                At(df, row, dropoff_latitude).n,
                At(df, row, dropoff_longitude).n)

(* the conversion with a wrong factor *)
TimesHundred(km) == km * 100

(* df["distance_km"] * 1000 *)
TimesThousand(km) == km * 1000

Scored(df_valid) ==
    DataFrame(df_valid.columns \o <<distance_km, distance_meters>>,
              [r \in 1..Len(df_valid.rows) |->
                  LET km == _calc_row(df_valid, df_valid.rows[r])
                  IN df_valid.rows[r] \o <<Num(km), Num(TimesThousand(km))>>])

(* On a frame without rows DataFrame.apply(axis=1) tries _calc_row on a    *)
(* row of missing values; the math functions pass these through without    *)
(* raising, so apply yields an empty Series and both columns are added to  *)
(* the empty frame.  A row whose formula leaves the domain of asin raises  *)
(* ValueError out of apply.                                                *)
compute_distances(df) ==
    LET df_valid == dropna(df, CoordinateSubset)
    IN IF \E r \in 1..Len(df_valid.rows) : RowDomainError(df_valid, df_valid.rows[r])
       THEN Outcome("ValueError", NoFrame, <<>>, <<>>)
       ELSE Outcome("ok", Scored(df_valid), <<>>, <<>>)

-----------------------------------------------------------------------------
(* main: threshold filter, sort, CSV export *)

(* the filter with >= in place of > *)
FilterAtLeast(df, threshold) ==
    [columns |-> df.columns,
     rows |-> SelectSeq(df.rows,
                        LAMBDA row :
                            row[Positions(df.columns, distance_km)[1]].n >= threshold)]

(* df_with_dist[df_with_dist["distance_km"] > min_km] *)
FilterAbove(df, threshold) ==
    DataFrame(df.columns,
              SelectSeq(df.rows, LAMBDA row : At(df, row, distance_km).n > threshold))

Orderings(n) ==
    {p \in [1..n -> 1..n] : \A i, j \in 1..n : p[i] = p[j] => i = j}

IsDescending(df) ==
    \A i \in 1..(Len(df.rows) - 1) :
        At(df, df.rows[i], distance_km).n >= At(df, df.rows[i + 1], distance_km).n

(* sort_values("distance_km", ascending=False): every descending          *)
(* arrangement of the rows; the order among equal distances is not fixed   *)
SortedDescending(df) ==
    {d \in {DataFrame(df.columns, [i \in 1..Len(df.rows) |-> df.rows[p[i]]]) :
               p \in Orderings(Len(df.rows))} : IsDescending(d)}

(* DataFrame.head() *)
head(df) ==
    DataFrame(df.columns,
              SubSeq(df.rows, 1, IF Len(df.rows) < 5 THEN Len(df.rows) ELSE 5))

RECURSIVE NatDigits(_)
NatDigits(n) ==
    IF n < 10 THEN <<Digits[n + 1]>>
    ELSE NatDigits(n \div 10) \o <<Digits[(n % 10) + 1]>>

FormatNum(n) ==
    LET m == Abs(n)
        f == m % FloatScale
    IN (IF n < 0 THEN <<"-">> ELSE <<>>)
       \o NatDigits(m \div FloatScale) \o <<".">>
       \o <<Digits[(f \div 100) + 1], Digits[((f \div 10) % 10) + 1], Digits[(f % 10) + 1]>>

FormatCell(cell) ==
    IF cell.k = "num" THEN FormatNum(cell.n)
    ELSE IF cell.k = "str" THEN cell.s
    ELSE <<>>

(* to_csv(index=False, header=False): the rows without the header line *)
to_csv_no_header(df) ==
    [r \in 1..Len(df.rows) |->
        Join([j \in 1..Len(df.columns) |-> FormatCell(df.rows[r][j])], <<",">>)]

(* df.to_csv(index=False): the header line, then one line per row *)
to_csv(df) ==
    <<Join(df.columns, <<",">>)>>
    \o [r \in 1..Len(df.rows) |->
           Join([j \in 1..Len(df.columns) |-> FormatCell(df.rows[r][j])], <<",">>)]

file_name == "hasil_validasi_jarak_excel_only.csv"

(* One thing put on the page *)
Widget(w, df, text, required, missing, data, name) ==
    [w |-> w, df |-> df, text |-> text, required |-> required,
     missing |-> missing, data |-> data, name |-> name]

Info(text) == Widget("info", NoFrame, text, <<>>, <<>>, <<>>, "")
Error(text, required, missing) ==
    Widget("error", NoFrame, text, required, missing, <<>>, "")
Table(text, df) == Widget("dataframe", df, text, <<>>, <<>>, <<>>, "")
Success(text) == Widget("success", NoFrame, text, <<>>, <<>>, <<>>, "")
DownloadButton(data, name) ==
    Widget("download_button", NoFrame, "Download hasil (CSV)", <<>>, <<>>, data, name)

-----------------------------------------------------------------------------
(* Inputs of one run *)

MaxRows == 3

upper(s) ==
    [i \in 1..Len(s) |->
        IF \E k \in 1..Len(LowerAlpha) : LowerAlpha[k] = s[i]
        THEN Upper[CHOOSE k \in 1..Len(LowerAlpha) : LowerAlpha[k] = s[i]]
        ELSE s[i]]

capitalize(s) == upper(SubSeq(s, 1, 1)) \o SubSeq(s, 2, Len(s))

w_notes == <<"n","o","t","e","s">>
a_delivery_lat == w_delivery \o us \o w_lat
a_delivery_long == w_delivery \o us \o w_long
a_delivery_lng == w_delivery \o us \o w_lng
a_actual_lat == w_actual \o us \o w_lat
a_actual_lng == w_actual \o us \o w_lng
a_dropoff_lat == w_dropoff \o us \o w_lat
a_dropoff_long == w_dropoff \o us \o w_long

HeaderCases ==
    { required_cols,
      <<dropoff_longitude, shipment_code, dropoff_latitude,
        delivery_longitude, delivery_latitude>>,
      << <<" ">> \o capitalize(w_shipment) \o <<" ">>, capitalize(a_delivery_lat),
         w_notes, upper(a_delivery_lng), upper(a_actual_lat),
         a_actual_lng \o <<" ">> >>,
      <<shipment_code, a_delivery_lat, a_delivery_long, a_dropoff_lat, w_notes>>,
      <<w_shipment, w_notes>>,
      <<>>,
      <<shipment_code, a_delivery_lat, delivery_latitude, delivery_longitude,
        a_dropoff_lat, a_dropoff_long>>,
      <<w_shipment, shipment_code, a_delivery_lat, a_delivery_long,
        a_dropoff_lat, a_dropoff_long>>,
      <<capitalize(w_shipment), w_shipment \o <<" ">>, delivery_latitude,
        delivery_longitude, dropoff_latitude, dropoff_longitude>>,
      <<shipment_code, a_delivery_lat, delivery_latitude, a_dropoff_lat>>,
      <<shipment_code, w_delivery \o us \o <<"l","o","n">>, w_latitude,
        w_notes, dropoff_latitude, dropoff_longitude>> }

Code(d) == Str(<<"S", d>>)
NotAvailable == Str(<<"N","/","A">>)

(* rows for a sheet with the five canonical headers in canonical order *)
RowPool ==
    { <<NaN, Num(0), Num(0), Num(0), Num(0)>>,
      <<Code("2"), Num(0), Num(0), Num(0), Num(100)>>,
      <<Code("3"), Str(<<"0">>), Str(<<"0",".","0">>), Str(<<"0",".","2">>), Str(<<"0">>)>>,
      <<Code("9"), Num(100), Num(100), Num(400), Num(100)>>,
      <<Code("5"), NotAvailable, Num(0), Num(0), Num(100)>>,
      <<Code("6"), Num(0), NaN, Num(0), Num(0)>>,
      <<Code("7"), Num(0), Num(0), Str(<<>>), Num(300)>>,
      <<Code("8"), Num(0), Num(0), Num(0), NaN>> }

(* rows for any other sheet: cell j of the row holds j tenths of a degree,  *)
(* shifted by the row tag, so that columns can be told apart                *)
TaggedRow(n, tag) == [j \in 1..n |-> Num(j * 100 + tag)]

RowsFor(h) ==
    IF h = required_cols THEN RowPool
    ELSE {TaggedRow(Len(h), 0), TaggedRow(Len(h), 7)}

Upload(present, readable, sheet) ==
    [present |-> present, readable |-> readable, sheet |-> sheet]

(* st.sidebar.number_input(min_value=0.1, max_value=100.0, value=1.0) *)
MinKmLow == 100
MinKmHigh == 100000
MinKmDefault == 1000
Thresholds ==
    {t \in {MinKmDefault, haversine_distance_km(0, 0, 0, 100)} :
        MinKmLow <= t /\ t <= MinKmHigh}

-----------------------------------------------------------------------------
(* One run of main() *)

VARIABLES pc, uploaded_file, min_km, df_raw, df_norm, df_with_dist, df_result,
          page, ran, raised

vars == <<pc, uploaded_file, min_km, df_raw, df_norm, df_with_dist, df_result,
          page, ran, raised>>

Init ==
    /\ pc = "upload"
    /\ \/ uploaded_file = Upload(FALSE, FALSE, NoFrame)
       \/ uploaded_file = Upload(TRUE, FALSE, NoFrame)
       \/ \E h \in HeaderCases, k \in 0..MaxRows :
             \E rows \in [1..k -> RowsFor(h)] :
                uploaded_file = Upload(TRUE, TRUE, DataFrame(h, rows))
    /\ min_km \in Thresholds
    /\ df_raw = NoFrame
    /\ df_norm = NoFrame
    /\ df_with_dist = NoFrame
    /\ df_result = NoFrame
    /\ page = <<>>
    /\ ran = <<>>
    /\ raised = "none"

(* st.file_uploader; without a file the run ends with a hint *)
UploadStep ==
    /\ pc = "upload"
    /\ ran' = Append(ran, "upload")
    /\ IF ~uploaded_file.present
       THEN /\ page' = Append(page, Info("Silakan upload file Excel"))
            /\ pc' = "done"
       ELSE /\ page' = page
            /\ pc' = "read"
    /\ UNCHANGED <<uploaded_file, min_km, df_raw, df_norm, df_with_dist,
                   df_result, raised>>

(* read_excel whose except branch reports the error but does not return *)
ReadExcelNoReturn ==
    /\ pc = "read"
    /\ ran' = Append(ran, "read")
    /\ IF uploaded_file.readable
       THEN /\ df_raw' = uploaded_file.sheet
            /\ page' = page
       ELSE /\ df_raw' = df_raw
            /\ page' = Append(page, Error("Gagal membaca file Excel", <<>>, <<>>))
    /\ pc' = "preview"
    /\ UNCHANGED <<uploaded_file, min_km, df_norm, df_with_dist, df_result, raised>>

(* pd.read_excel inside try/except Exception *)
ReadExcel ==
    /\ pc = "read"
    /\ ran' = Append(ran, "read")
    /\ IF uploaded_file.readable
       THEN /\ df_raw' = uploaded_file.sheet
            /\ page' = page
            /\ pc' = "preview"
       ELSE /\ df_raw' = df_raw
            /\ page' = Append(page, Error("Gagal membaca file Excel", <<>>, <<>>))
            /\ pc' = "done"
    /\ UNCHANGED <<uploaded_file, min_km, df_norm, df_with_dist, df_result, raised>>

(* st.dataframe(df_raw.head()) *)
Preview ==
    /\ pc = "preview"
    /\ ran' = Append(ran, "preview")
    /\ page' = Append(page, Table("raw", head(df_raw)))
    /\ pc' = "normalize"
    /\ UNCHANGED <<uploaded_file, min_km, df_raw, df_norm, df_with_dist,
                   df_result, raised>>

(* normalize_columns inside try/except ValueError; any other exception     *)
(* leaves main                                                             *)
Normalize ==
    /\ pc = "normalize"
    /\ ran' = Append(ran, "normalize")
    /\ \E out \in {normalize_columns(df_raw)} :
          IF out.status = "ok"
          THEN /\ df_norm' = out.df
               /\ page' = Append(page, Table("norm", head(out.df)))
               /\ raised' = raised
               /\ pc' = "compute"
          ELSE IF out.status = "ValueError"
          THEN /\ df_norm' = df_norm
               /\ page' = Append(page, Error("Kolom wajib belum lengkap.",
                                              out.required, out.missing))
               /\ raised' = raised
               /\ pc' = "done"
          ELSE /\ df_norm' = df_norm
               /\ page' = page
               /\ raised' = out.status
               /\ pc' = "crashed"
    /\ UNCHANGED <<uploaded_file, min_km, df_raw, df_with_dist, df_result>>

(* compute_distances, outside any try *)
Compute ==
    /\ pc = "compute"
    /\ ran' = Append(ran, "compute")
    /\ \E out \in {compute_distances(df_norm)} :
          IF out.status = "ok"
          THEN /\ df_with_dist' = out.df
               /\ page' = Append(page, Success("Perhitungan jarak selesai."))
               /\ raised' = raised
               /\ pc' = "filter"
          ELSE /\ df_with_dist' = df_with_dist
               /\ page' = page
               /\ raised' = out.status
               /\ pc' = "crashed"
    /\ UNCHANGED <<uploaded_file, min_km, df_raw, df_norm, df_result>>

(* the threshold filter and the descending sort *)
FilterSort ==
    /\ pc = "filter"
    /\ ran' = Append(ran, "filter")
    /\ df_result' \in SortedDescending(FilterAbove(df_with_dist, min_km))
    /\ pc' = "render"
    /\ UNCHANGED <<uploaded_file, min_km, df_raw, df_norm, df_with_dist, page, raised>>

(* the result table and the download button, or a hint when nothing is left *)
Render ==
    /\ pc = "render"
    /\ ran' = Append(ran, "render")
    /\ IF df_result.rows # <<>>
       THEN page' = page \o <<Table("result", df_result),
                               DownloadButton(to_csv(df_result), file_name)>>
       ELSE page' = Append(page, Info("Tidak ada shipment yang melebihi threshold"))
    /\ pc' = "done"
    /\ UNCHANGED <<uploaded_file, min_km, df_raw, df_norm, df_with_dist,
                   df_result, raised>>

Next ==
    \/ UploadStep
    \/ ReadExcel
    \/ Preview
    \/ Normalize
    \/ Compute
    \/ FilterSort
    \/ Render

Spec == Init /\ [][Next]_vars

-----------------------------------------------------------------------------
(* Properties *)

Ran(stage) == stage \in Range(ran)

Count(row, rows) == Cardinality({i \in 1..Len(rows) : rows[i] = row})

Km(df, row) == At(df, row, distance_km).n
Meters(df, row) == At(df, row, distance_meters).n

NormalizeSucceeded == Ran("normalize") /\ ~(Len(ran) = 4 /\ pc \in {"done", "crashed"})
ComputeSucceeded == Ran("compute") /\ ~(Len(ran) = 5 /\ pc = "crashed")

(* C2: the Result Set holds exactly the scored rows whose distance_km is   *)
(* strictly above the threshold, each as often as in the scored table, in  *)
(* non-increasing order of distance_km.                                    *)
C2_ResultSetExactAndDescending ==
    Ran("filter") =>
        /\ df_result.columns = df_with_dist.columns
        /\ \A row \in Range(df_with_dist.rows) \cup Range(df_result.rows) :
              Count(row, df_result.rows) =
                  IF Km(df_with_dist, row) > min_km
                  THEN Count(row, df_with_dist.rows)
                  ELSE 0
        /\ \A i, j \in 1..Len(df_result.rows) :
              i < j => Km(df_result, df_result.rows[i]) >= Km(df_result, df_result.rows[j])

(* a scored table with a row exactly at the threshold, a row below it, and *)
(* two rows above it that the sort had to swap                             *)
C2_Witness ==
    /\ Ran("filter")
    /\ \E row \in Range(df_with_dist.rows) : Km(df_with_dist, row) = min_km
    /\ Len(df_with_dist.rows) = 3
    /\ Km(df_with_dist, df_with_dist.rows[1]) > min_km
    /\ Km(df_with_dist, df_with_dist.rows[1]) < Km(df_with_dist, df_with_dist.rows[3])
    /\ Len(df_result.rows) = 2
    /\ df_result.rows[1] = df_with_dist.rows[3]
    /\ df_result.rows[2] = df_with_dist.rows[1]

CoordinatesPresent(df, row) ==
    /\ At(df, row, delivery_latitude).k # "nan"
    /\ At(df, row, delivery_longitude).k # "nan"
    /\ At(df, row, dropoff_latitude).k # "nan"
    /\ At(df, row, dropoff_longitude).k # "nan"

(* C3: when compute_distances returns, its rows are exactly the input rows *)
(* with all four coordinates present, in input order, each with its        *)
(* original fields unchanged in front of the two distance fields.          *)
C3_RetainedRowsExactInOrder ==
    ComputeSucceeded =>
        LET kept == SelectSeq(df_norm.rows, LAMBDA row : CoordinatesPresent(df_norm, row))
            n == Len(df_norm.columns)
        IN /\ Len(df_with_dist.rows) = Len(kept)
           /\ SubSeq(df_with_dist.columns, 1, n) = df_norm.columns
           /\ \A r \in 1..Len(kept) : SubSeq(df_with_dist.rows[r], 1, n) = kept[r]

(* a row without shipment_code is kept, a row with one missing coordinate  *)
(* is dropped from between two kept rows                                   *)
C3_Witness ==
    /\ ComputeSucceeded
    /\ df_norm.columns = required_cols
    /\ Len(df_norm.rows) = 3
    /\ Len(df_with_dist.rows) = 2
    /\ ~CoordinatesPresent(df_norm, df_norm.rows[2])
    /\ isna(At(df_norm, df_norm.rows[1], shipment_code))
    /\ df_norm.rows[1] # df_norm.rows[3]
    /\ SubSeq(df_with_dist.rows[1], 1, 5) = df_norm.rows[1]
    /\ SubSeq(df_with_dist.rows[2], 1, 5) = df_norm.rows[3]

ReadFailed == Ran("read") /\ ~uploaded_file.readable
ColumnsMissing == Ran("normalize") /\ Missing(Renamed(Normalized(df_raw.columns))) # <<>>

Errors == SelectSeq(page, LAMBDA x : x.w = "error")

(* C6: after a file-read failure or a missing-columns failure exactly one  *)
(* error message is on the page, the run has ended, and no later stage has *)
(* run or left any output.                                                 *)
C6_FailureHaltsRun ==
    /\ Len(Errors) <= 1
    /\ ReadFailed =>
          /\ pc = "done"
          /\ ran = <<"upload", "read">>
          /\ Len(page) = 1 /\ page[1].w = "error"
          /\ df_raw = NoFrame /\ df_norm = NoFrame
          /\ df_with_dist = NoFrame /\ df_result = NoFrame
    /\ ColumnsMissing =>
          /\ pc = "done"
          /\ ran = <<"upload", "read", "preview", "normalize">>
          /\ Len(Errors) = 1 /\ page[Len(page)].w = "error"
          /\ \A i \in 1..Len(page) :
                page[i].w \notin {"success", "download_button"} /\ page[i].text # "result"
                /\ page[i].text # "norm"
          /\ df_norm = NoFrame /\ df_with_dist = NoFrame /\ df_result = NoFrame

C6_Witness ==
    /\ ColumnsMissing
    /\ pc = "done"
    /\ Len(df_raw.rows) > 0
    /\ page[Len(page)].missing = <<dropoff_longitude>>

(* C9: in the scored table and in the Result Set every row has             *)
(* distance_meters equal to distance_km times 1000.                        *)
C9_MetersAreThousandKm ==
    /\ ComputeSucceeded =>
          \A row \in Range(df_with_dist.rows) :
              Meters(df_with_dist, row) = Km(df_with_dist, row) * 1000
    /\ Ran("filter") =>
          \A row \in Range(df_result.rows) :
              Meters(df_result, row) = Km(df_result, row) * 1000

C9_Witness ==
    /\ Ran("filter")
    /\ Len(df_result.rows) >= 2
    /\ df_result.rows # df_with_dist.rows
    /\ \A row \in Range(df_result.rows) : Km(df_result, row) > 0

-----------------------------------------------------------------------------
(* What the raw headers stand for *)

Canonical(header) ==
    LET h == lower(strip(header))
    IN IF InColMap(h) THEN ColMapGet(h) ELSE h

Feeding(c) == {j \in 1..Len(df_raw.columns) : Canonical(df_raw.columns[j]) = c}

Absent == {c \in Range(required_cols) : Feeding(c) = {}}
Collision == \E c \in Range(required_cols) : Cardinality(Feeding(c)) > 1

NormalizeFailed == Ran("normalize") /\ Len(ran) = 4 /\ pc \in {"done", "crashed"}

IsNumericCol(c) == c \in Range(numeric_cols)

(* the value a canonical column must show for a raw cell *)
Shown(c, cell) == IF IsNumericCol(c) THEN to_numeric(cell) ELSE cell

(* C1: normalize_columns fails exactly when a canonical name is absent     *)
(* after trimming, lower-casing and alias mapping, and its error then      *)
(* carries the five required names and exactly the absent names.           *)
C1_FailsIffAbsent ==
    Ran("normalize") =>
        /\ NormalizeFailed <=> Absent # {}
        /\ NormalizeFailed =>
              /\ page # <<>>
              /\ page[Len(page)].w = "error"
              /\ page[Len(page)].required = required_cols
              /\ Range(page[Len(page)].missing) = Absent
              /\ Len(page[Len(page)].missing) = Cardinality(Absent)

(* C4: for every table with all five required columns normalize_columns   *)
(* does not raise whatever the cells hold, compute_distances does not      *)
(* raise either, and without any complete row the scored table is empty    *)
(* but still has the two distance columns.                                 *)
C4_NoErrorFromCells ==
    /\ (Ran("normalize") /\ Absent = {}) => ~NormalizeFailed
    /\ Ran("compute") =>
          /\ pc # "crashed"
          /\ raised = "none"
          /\ distance_km \in Range(df_with_dist.columns)
          /\ distance_meters \in Range(df_with_dist.columns)
          /\ (\A row \in Range(df_norm.rows) : ~CoordinatesPresent(df_norm, row))
                => df_with_dist.rows = <<>>

(* C5: a successful normalize_columns returns exactly the five canonical   *)
(* columns in canonical order with as many rows as the input, each column  *)
(* fed by a raw column whose trimmed, lower-cased header is an alias of    *)
(* it.                                                                     *)
C5_FiveCanonicalColumns ==
    NormalizeSucceeded =>
        /\ df_norm.columns = required_cols
        /\ Len(df_norm.rows) = Len(df_raw.rows)
        /\ \A i \in 1..Len(required_cols) :
              \E j \in Feeding(required_cols[i]) :
                  \A r \in 1..Len(df_raw.rows) :
                      df_norm.rows[r][i] = Shown(required_cols[i], df_raw.rows[r][j])

LastFeeding(c) == CHOOSE j \in Feeding(c) : \A k \in Feeding(c) : k <= j

(* C10: with two aliases of one canonical name among the headers and all   *)
(* five names covered, normalize_columns succeeds with exactly five        *)
(* columns, each holding the values of the last raw column that feeds it.  *)
C10_LastOneWins ==
    (Ran("normalize") /\ Absent = {} /\ Collision) =>
        /\ NormalizeSucceeded
        /\ df_norm.columns = required_cols
        /\ \A i \in 1..Len(required_cols) :
              \A r \in 1..Len(df_raw.rows) :
                  df_norm.rows[r][i] =
                      Shown(required_cols[i], df_raw.rows[r][LastFeeding(required_cols[i])])

CanonicalRaw ==
    /\ Len(df_raw.columns) = Len(required_cols)
    /\ Range(df_raw.columns) = Range(required_cols)

(* C7 as stated: on a table that already has exactly the five canonical    *)
(* columns normalize_columns returns its input, and does so again on its   *)
(* output.                                                                 *)
C7_NoOpOnCanonical ==
    (Ran("normalize") /\ CanonicalRaw) =>
        /\ NormalizeSucceeded
        /\ df_norm = df_raw
        /\ normalize_columns(df_norm) = Outcome("ok", df_norm, <<>>, <<>>)

(* C7 amended: on such a table normalize_columns succeeds and returns the  *)
(* columns in canonical order, shipment_code as it was and every           *)
(* coordinate cell converted to a number or to missing; the result is the  *)
(* input when the columns are in canonical order and no coordinate cell is *)
(* text; a second application returns the same table.                      *)
C7_IdempotentAfterCoercion ==
    (Ran("normalize") /\ CanonicalRaw) =>
        /\ NormalizeSucceeded
        /\ df_norm.columns = required_cols
        /\ Len(df_norm.rows) = Len(df_raw.rows)
        /\ \A r \in 1..Len(df_raw.rows) : \A i \in 1..Len(required_cols) :
              LET cell == At(df_raw, df_raw.rows[r], required_cols[i])
              IN df_norm.rows[r][i] =
                    IF i = 1 THEN cell
                    ELSE IF cell.k = "str" THEN ParseFloat(cell.s) ELSE cell
        /\ (/\ df_raw.columns = required_cols
            /\ \A r \in 1..Len(df_raw.rows) : \A i \in 2..Len(required_cols) :
                  df_raw.rows[r][i].k # "str")
              => df_norm = df_raw
        /\ normalize_columns(df_norm) = Outcome("ok", df_norm, <<>>, <<>>)

(* a canonical table in canonical order whose text cells were converted,   *)
(* one to a number and one to missing                                      *)
C7_Witness ==
    /\ Ran("normalize")
    /\ df_raw.columns = required_cols
    /\ NormalizeSucceeded
    /\ df_norm # df_raw
    /\ \E r \in 1..Len(df_raw.rows) :
          df_raw.rows[r][4].k = "str" /\ df_norm.rows[r][4].k = "num"
    /\ \E r \in 1..Len(df_raw.rows) :
          df_raw.rows[r][2].k = "str" /\ df_norm.rows[r][2].k = "nan"
    /\ \A r \in 1..Len(df_raw.rows) : df_norm.rows[r][1] = df_raw.rows[r][1]

ResultTableShown == \E i \in 1..Len(page) : page[i] = Table("result", df_result)

DownloadOffered ==
    \E i \in 1..Len(page) :
        /\ page[i].w = "download_button"
        /\ page[i].name = "hasil_validasi_jarak_excel_only.csv"
        /\ Len(page[i].data) = 1 + Len(df_result.rows)
        /\ page[i].data[1] = Join(df_result.columns, <<",">>)
        /\ \A r \in 1..Len(df_result.rows) :
              page[i].data[r + 1] =
                  Join([j \in 1..Len(df_result.columns) |-> FormatCell(df_result.rows[r][j])],
                       <<",">>)

(* C8 as stated: every run that ends after a successful read and           *)
(* normalization shows the Result Set table and offers the CSV download,   *)
(* an empty Result Set included.                                           *)
C8_AlwaysTableAndDownload ==
    (pc = "done" /\ NormalizeSucceeded) => (ResultTableShown /\ DownloadOffered)

(* C8 amended: a run that ends after a successful read and normalization   *)
(* shows the table and offers the download, header line first, when the    *)
(* Result Set is not empty; for an empty Result Set it shows neither, only *)
(* a notice.                                                               *)
C8_TableAndDownloadUnlessEmpty ==
    (pc = "done" /\ NormalizeSucceeded) =>
        /\ Ran("render")
        /\ IF df_result.rows # <<>>
           THEN ResultTableShown /\ DownloadOffered
           ELSE /\ page[Len(page)].w = "info"
                /\ \A i \in 1..Len(page) :
                      page[i].w # "download_button" /\ page[i].text # "result"

C8_Witness ==
    /\ pc = "done"
    /\ NormalizeSucceeded
    /\ Len(df_result.rows) = 2
    /\ ResultTableShown
    /\ DownloadOffered

=============================================================================
